---- MODULE Spec2Model ----
(***************************************************************************)
(* A model of ccs (src/src/main/ccs.cpp): option checking, the chunk       *)
(* assembler of main(), the bounded ordered WorkQueue it submits to, the   *)
(* consensus workers, and the WriterThread / Writer consumer.              *)
(*                                                                         *)
(* WorkQueue.h, Consensus.h and Whitelist.h are not part of the sources at *)
(* hand; the definitions that stand for them follow the written design     *)
(* (sections 3, 4.2 and 6) and carry the prefix WQ_, Consensus or          *)
(* Whitelist.                                                              *)
(*                                                                         *)
(* Specifications: Spec is the whole run; SpecTC is ThreadCount alone;     *)
(* SpecW is Writer alone, on batches of several records; SpecF is the run  *)
(* from the first input file on, over a longer input of accepted reads.    *)
(***************************************************************************)
EXTENDS Integers, Sequences, FiniteSets, TLC

\* ---------------------------------------------------------------- bounds
MaxReads == 2      \* reads delivered by all input files together
MaxFiles == 2      \* input files (FILES...)
MaxHw    == 2      \* largest thread::hardware_concurrency() considered
MaxTcArg == 5      \* largest |n| and m in the ThreadCount-only specification
MaxBatch == 2      \* records of a result batch in the Writer-only specification
MaxReadsF == 3     \* reads of the input in the specification of a failing run

\* ------------------------------------------------------ program constants
chunkSize        == 1      \* ccs.cpp:325
DefaultMinSnr    == 4      \* ccs.cpp:304
DefaultReadScore == 750    \* ccs.cpp:305, scaled by 1000 at ccs.cpp:323

\* ------------------------------------------------------------ input sets
Movies     == {"m1", "mX"}
Holes      == {1, 2}
SnrVectors == { <<4, 6, 5, 8>>, <<5, 3, 7, 9>> }
Accuracies == { DefaultReadScore - 1, DefaultReadScore }
MinPassesOpts == {0, 1, 2}
ZmwsOpts   == {"", "1", "1-"}
ThreadOpts == (-1) .. MaxHw
HwValues   == 0 .. MaxHw

Outcomes == {"Success", "PoorSNR", "NoSubreads", "TooShort", "TooFewPasses",
             "TooManyUnusable", "NonConvergent", "PoorQuality"}

Max(a, b) == IF a >= b THEN a ELSE b
Min(a, b) == IF a <= b THEN a ELSE b
Abs(a)    == IF a < 0 THEN -a ELSE a
Last(s)   == s[Len(s)]
Front(s)  == SubSeq(s, 1, Len(s) - 1)

RECURSIVE MinOf(_)
MinOf(s) == IF Len(s) = 1 THEN s[1] ELSE Min(s[1], MinOf(Tail(s)))

RECURSIVE SumOver(_, _)
SumOver(f, S) ==
    IF S = {} THEN 0
    ELSE LET x == CHOOSE y \in S : TRUE IN f[x] + SumOver(f, S \ {x})

VARIABLES
    pc,           \* position of the main thread
    err,          \* the parser.error() that ended the run, "" if none
    opened,       \* files opened for writing so far
    MinPasses,    \* settings.MinPasses
    whitelist,    \* optional<Whitelist>
    nThreads,     \* const size_t nThreads
    ccsPbi,       \* unique_ptr<PbiBuilder> is non-null
    tc,           \* activation record of ThreadCount (function-level check)
    fileNo,       \* input files entered so far (the outer for loop)
    nRead,        \* reads delivered so far by the ReadSource
    cur,          \* const auto& read: the read of the current loop iteration
    holeNumber,   \* optional<int32_t> holeNumber
    skipZmw,
    chunk,        \* unique_ptr<vector<Chunk>>
    poorSNR,
    tooFewPasses,
    wq,           \* the WorkQueue<Results>
    cpc,          \* position of the WriterThread task
    counts,       \* Results counts of WriterThread, then of main
    sink,         \* calls received by ccsBam / ccsPbi, in order
    hist          \* history of the run (observation only)

vars == << pc, err, opened, MinPasses, whitelist, nThreads, ccsPbi, tc,
           fileNo, nRead, cur, holeNumber, skipZmw, chunk,
           poorSNR, tooFewPasses, wq, cpc, counts, sink, hist >>

mainVars  == << fileNo, nRead, cur, holeNumber, skipZmw, chunk,
                poorSNR, tooFewPasses >>
cfgVars   == << MinPasses, whitelist, nThreads, ccsPbi >>
writerVars == << cpc, counts, sink >>

\* ------------------------------------------------------------ data types
NoHole     == [has |-> FALSE, val |-> 0]
SomeHole(h) == [has |-> TRUE, val |-> h]
NoWhitelist == [has |-> FALSE, holes |-> {}]
NoRead     == [movie |-> "", hole |-> 0, snr |-> <<0, 0, 0, 0>>, acc |-> 0,
               n |-> 0, file |-> 0]
NewVector  == [ptr |-> TRUE, vec |-> << >>]      \* new vector<Chunk>()
MovedFrom  == [ptr |-> FALSE, vec |-> << >>]     \* chunk after move(chunk)
NoCall     == [active |-> FALSE, n |-> 0, m |-> 0, ret |-> 0]

ZeroCounts == [o \in Outcomes |-> 0]
OneCount(o) == [p \in Outcomes |-> IF p = o THEN 1 ELSE 0]
\* Results::operator+= on the outcome counters
AddCounts(a, b) == [o \in Outcomes |-> a[o] + b[o]]
\* Results::Total()
Total(c) == SumOver(c, Outcomes)

\* The reads a ReadSource can deliver next: n is the position in the whole
\* input, file the input file it comes from.
ReadsAt(n, f) ==
    { [movie |-> mv, hole |-> h, snr |-> sv, acc |-> a, n |-> n, file |-> f] :
        mv \in Movies, h \in Holes, sv \in SnrVectors, a \in Accuracies }

\* read.ReadGroup(): the read group of a movie
ReadGroupOf(mv) ==
    CASE mv = "m1" -> [BindingKit |-> "100372700", SequencingKit |-> "100356200",
                       BasecallerVersion |-> <<"2", ".", "3", ".", "0">>]
      [] OTHER     -> [BindingKit |-> "100356300", SequencingKit |-> "100356200",
                       BasecallerVersion |-> <<"2", ".", "0", ".", "1">>]

\* ------------------------------------------------------- pure functions
\* mutant: the bias subtracted instead of added
ThreadCountSubtracts(n, m) ==
    IF n < 1 THEN Max(1, m - n) ELSE Min(m, n)

\* size_t ThreadCount(int n), with m = thread::hardware_concurrency()
ThreadCountOf(n, m) ==
    IF n < 1 THEN Max(1, m + n) ELSE Min(m, n)

\* bool VerifyChemistry(const ReadGroupInfo&)
VerifyChemistry(rg) ==
    LET bcVer == SubSeq(rg.BasecallerVersion, 1, 3) IN
    \/ /\ rg.BindingKit = "100356300"
       /\ rg.SequencingKit = "100356200"
       /\ (bcVer = <<"2", ".", "1">> \/ bcVer = <<"2", ".", "3">>)
    \/ /\ rg.BindingKit = "100372700"
       /\ rg.SequencingKit = "100356200"
       /\ (bcVer = <<"2", ".", "1">> \/ bcVer = <<"2", ".", "3">>)

\* Whitelist(spec) throws on a malformed specification
WhitelistValid(spec) == spec = "1"
WhitelistOf(spec) == [has |-> TRUE, holes |-> {1}]
WhitelistContains(wl, mv, h) == h \in wl.holes

\* ------------------------------------------------------------- Init
EmptyQueue == [built |-> FALSE, size |-> 0, tasks |-> << >>, fifo |-> << >>,
               held |-> 0, finalized |-> FALSE]
NoHistory  == [cons |-> << >>, mols |-> 0, excl |-> 0,
               last |-> [movie |-> "", hole |-> 0, file |-> 0]]

InitRest ==
    /\ err = ""
    /\ opened = {}
    /\ MinPasses = 0
    /\ whitelist = NoWhitelist
    /\ nThreads = 0
    /\ ccsPbi = FALSE
    /\ fileNo = 0
    /\ nRead = 0
    /\ cur = NoRead
    /\ holeNumber = NoHole
    /\ skipZmw = FALSE
    /\ chunk = MovedFrom
    /\ poorSNR = 0
    /\ tooFewPasses = 0
    /\ wq = EmptyQueue
    /\ cpc = "idle"
    /\ counts = ZeroCounts
    /\ sink = << >>
    /\ hist = NoHistory

Init ==
    /\ pc = "parse"
    /\ tc = NoCall
    /\ InitRest

\* ------------------------------------------- main: options and set-up
\* parser.error(): the message is printed and the process exits
ParserError(msg) ==
    /\ pc' = "exit"
    /\ err' = msg

\* ccs.cpp:315-325
ParseArgs ==
    /\ pc = "parse"
    /\ \E mp \in MinPassesOpts, n \in ThreadOpts, m \in HwValues :
          /\ MinPasses' = mp
          /\ nThreads' = ThreadCountOf(n, m)
    /\ pc' = "minPasses"
    /\ UNCHANGED << err, opened, whitelist, ccsPbi, tc, mainVars, wq,
                    writerVars, hist >>

\* ccs.cpp:327-328
CheckMinPasses ==
    /\ pc = "minPasses"
    /\ IF MinPasses < 1
         THEN ParserError("option --minPasses: invalid value: must be >= 1")
         ELSE pc' = "zmws" /\ UNCHANGED err
    /\ UNCHANGED << opened, cfgVars, tc, mainVars, wq, writerVars, hist >>

\* ccs.cpp:333-343
CheckZmws ==
    /\ pc = "zmws"
    /\ \E wlspec \in ZmwsOpts :
          IF wlspec = ""
            THEN pc' = "files" /\ UNCHANGED << err, whitelist >>
            ELSE IF WhitelistValid(wlspec)
              THEN /\ whitelist' = WhitelistOf(wlspec)
                   /\ pc' = "files"
                   /\ UNCHANGED err
              ELSE /\ ParserError("option --zmws: invalid specification")
                   /\ UNCHANGED whitelist
    /\ UNCHANGED << opened, MinPasses, nThreads, ccsPbi, tc, mainVars, wq,
                    writerVars, hist >>

\* ccs.cpp:348-351; nf stands for files.size(), 2 for 2 or more
CheckFiles ==
    /\ pc = "files"
    /\ \E nf \in 0 .. 2 :
          IF nf < 1 THEN ParserError("missing OUTPUT")
          ELSE IF nf < 2 THEN ParserError("missing FILES...")
          ELSE pc' = "exists" /\ UNCHANGED err
    /\ UNCHANGED << opened, cfgVars, tc, mainVars, wq, writerVars, hist >>

\* mutant: the log file is opened before the OUTPUT check
CheckExistsAfterLogOpen ==
    /\ pc = "exists"
    /\ opened' = opened \cup {"log"}
    /\ \E fileExists \in BOOLEAN, forceOutput \in BOOLEAN :
          IF fileExists /\ ~forceOutput
            THEN ParserError("OUTPUT: file already exists")
            ELSE pc' = "logging" /\ UNCHANGED err
    /\ UNCHANGED << cfgVars, tc, mainVars, wq, writerVars, hist >>

\* ccs.cpp:354-355
CheckExists ==
    /\ pc = "exists"
    /\ \E fileExists \in BOOLEAN, forceOutput \in BOOLEAN :
          IF fileExists /\ ~forceOutput
            THEN ParserError("OUTPUT: file already exists")
            ELSE pc' = "logging" /\ UNCHANGED err
    /\ UNCHANGED << opened, cfgVars, tc, mainVars, wq, writerVars, hist >>

\* ccs.cpp:360-375
SetupLogging ==
    /\ pc = "logging"
    /\ \E logFileGiven \in BOOLEAN :
          opened' = IF logFileGiven THEN opened \cup {"log"} ELSE opened
    /\ pc' = "bam"
    /\ UNCHANGED << err, cfgVars, tc, mainVars, wq, writerVars, hist >>

\* ccs.cpp:380 with PrepareHeader (183-219), then 381-383
OpenBam ==
    /\ pc = "bam"
    /\ \E readTypeOk \in BOOLEAN :
          IF ~readTypeOk
            THEN /\ ParserError("invalid input file, READTYPE must be SUBREAD")
                 /\ UNCHANGED << opened, chunk >>
            ELSE /\ opened' = opened \cup {"bam"}
                 /\ chunk' = NewVector
                 /\ pc' = "pbi"
                 /\ UNCHANGED err
    /\ UNCHANGED << cfgVars, tc, fileNo, nRead, cur, holeNumber, skipZmw,
                    poorSNR, tooFewPasses, wq, writerVars, hist >>

\* ccs.cpp:385-386
OpenPbi ==
    /\ pc = "pbi"
    /\ \E pbIndex \in BOOLEAN :
          /\ ccsPbi' = pbIndex
          /\ opened' = IF pbIndex THEN opened \cup {"pbi"} ELSE opened
    /\ pc' = "queue"
    /\ UNCHANGED << err, MinPasses, whitelist, nThreads, tc, mainVars, wq,
                    writerVars, hist >>

\* ----------------------------------------------------- the WorkQueue
\* A task is one submission: the batch moved into it, the state of its
\* computation and, once computed, its result.  wq.fifo holds the handles
\* (submission numbers) in submission order; wq.held is the handle ConsumeWith
\* has popped and is waiting on (0: none).
NoResult == [counts |-> ZeroCounts, ccs |-> << >>]

\* WorkQueue(size): a queue with size workers
WQ_New(size) == [built |-> TRUE, size |-> size, tasks |-> << >>, fifo |-> << >>,
                 held |-> 0, finalized |-> FALSE]

\* the bound on outstanding handles of a queue with w workers
WQ_Capacity(w) == w

\* handles submitted and not yet consumed
WQ_Outstanding(q) == Len(q.fifo) + (IF q.held # 0 THEN 1 ELSE 0)

\* mutant: no bound on the outstanding handles
WQ_CanProduceUnbounded(q) == q.built

\* ProduceWith returns only when there is capacity
WQ_CanProduce(q) == q.built /\ WQ_Outstanding(q) < WQ_Capacity(q.size)

\* mutant: the handle is put at the head of the FIFO
WQ_ProduceAtHead(q, batch) ==
    [q EXCEPT !.tasks = Append(@, [batch |-> batch, st |-> "queued",
                                   res |-> NoResult]),
              !.fifo  = << Len(q.tasks) + 1 >> \o @]

\* ProduceWith: a handle at the tail of the FIFO, the task to the pool
WQ_Produce(q, batch) ==
    [q EXCEPT !.tasks = Append(@, [batch |-> batch, st |-> "queued",
                                   res |-> NoResult]),
              !.fifo  = Append(@, Len(q.tasks) + 1)]

\* mutant: ConsumeWith takes a handle whose computation has completed when
\* there is one (completion order), the head otherwise
WQ_PopCompleted(q) ==
    LET ready == { k \in DOMAIN q.fifo : q.tasks[q.fifo[k]].st = "done" }
        k == IF ready = {} THEN 1
             ELSE CHOOSE x \in ready : \A y \in ready : y <= x
    IN [q EXCEPT !.held = q.fifo[k],
                 !.fifo = SubSeq(q.fifo, 1, k - 1)
                          \o SubSeq(q.fifo, k + 1, Len(q.fifo))]

\* ConsumeWith pops the head handle, then waits for that computation
WQ_Pop(q) == [q EXCEPT !.held = Head(q.fifo), !.fifo = Tail(@)]

\* the popped handle's result was handed over (or its error raised)
WQ_Release(q) ==
    [q EXCEPT !.tasks[q.held] = [batch |-> << >>, st |-> "consumed",
                                 res |-> NoResult],
              !.held = 0]

\* mutant: an empty FIFO is taken for the end of the stream
WQ_DrainedWhenEmpty(q) == q.fifo = << >>

\* ConsumeWith returns false
WQ_Drained(q) == q.fifo = << >> /\ q.finalized

\* Finalize()
WQ_Finalize(q) == [q EXCEPT !.finalized = TRUE]

WQ_Running(q) == { i \in 1 .. Len(q.tasks) : q.tasks[i].st = "running" }

\* ----------------------------------------------- the consensus engine
ConsensusOutcomes == {"Success", "TooFewPasses"}

\* the result of one chunk: one outcome, and a record when it succeeded
ConsensusOne(c) ==
    { [counts |-> OneCount(o),
       ccs |-> IF o = "Success"
                 THEN << [Id |-> c.Id, NumPasses |-> Len(c.Reads),
                          SignalToNoise |-> c.SignalToNoise,
                          first |-> IF c.Reads = << >> THEN 0
                                    ELSE c.Reads[1].n] >>
                 ELSE << >>] : o \in ConsensusOutcomes }

\* Consensus<Chunk, CCS>(batch, settings)
RECURSIVE Consensus(_)
Consensus(batch) ==
    IF batch = << >> THEN { NoResult }
    ELSE { [counts |-> AddCounts(a.counts, b.counts), ccs |-> a.ccs \o b.ccs] :
             a \in ConsensusOne(Head(batch)), b \in Consensus(Tail(batch)) }

\* a pool thread takes a queued task
WorkerStart(i) ==
    /\ wq.built
    /\ i \in 1 .. Len(wq.tasks)
    /\ wq.tasks[i].st = "queued"
    /\ Cardinality(WQ_Running(wq)) < wq.size
    /\ wq' = [wq EXCEPT !.tasks[i].st = "running"]
    /\ UNCHANGED << pc, err, opened, cfgVars, tc, mainVars, writerVars, hist >>

\* the computation returns its result
WorkerFinish(i) ==
    /\ i \in 1 .. Len(wq.tasks)
    /\ wq.tasks[i].st = "running"
    /\ \E res \in Consensus(wq.tasks[i].batch) :
          wq' = [wq EXCEPT !.tasks[i] = [batch |-> << >>, st |-> "done",
                                         res |-> res]]
    /\ UNCHANGED << pc, err, opened, cfgVars, tc, mainVars, writerVars, hist >>

\* the computation raises an error
WorkerFail(i) ==
    /\ i \in 1 .. Len(wq.tasks)
    /\ wq.tasks[i].st = "running"
    /\ wq' = [wq EXCEPT !.tasks[i] = [batch |-> << >>, st |-> "failed",
                                      res |-> NoResult]]
    /\ UNCHANGED << pc, err, opened, cfgVars, tc, mainVars, writerVars, hist >>

\* -------------------------------------------------- main: the assembler
\* mutant: the comparison is off by one
MinPassesCheckOffByOne(ch, tfp) ==
    IF ch.ptr /\ ch.vec # << >> /\ Len(Last(ch.vec).Reads) < MinPasses - 1
      THEN [chunk |-> [ch EXCEPT !.vec = Front(@)], tooFewPasses |-> tfp + 1]
      ELSE [chunk |-> ch, tooFewPasses |-> tfp]

\* ccs.cpp:413-420 and 483-490
MinPassesCheck(ch, tfp) ==
    IF ch.ptr /\ ch.vec # << >> /\ Len(Last(ch.vec).Reads) < MinPasses
      THEN [chunk |-> [ch EXCEPT !.vec = Front(@)], tooFewPasses |-> tfp + 1]
      ELSE [chunk |-> ch, tooFewPasses |-> tfp]

\* ccs.cpp:422 and 493
MustProduceInLoop(ch) == ch.ptr /\ Len(ch.vec) >= chunkSize
MustProduceAtEnd(ch)  == ch.ptr /\ ch.vec # << >>

\* ccs.cpp:411
IsBoundary(hn, r) == ~hn.has \/ hn.val # r.hole

\* ccs.cpp:430-447: the first filter that rejects the molecule of read r
MoleculeFilter(wl, r) ==
    IF wl.has /\ ~WhitelistContains(wl, r.movie, r.hole) THEN "whitelist"
    ELSE IF ~VerifyChemistry(ReadGroupOf(r.movie)) THEN "chemistry"
    ELSE IF MinOf(r.snr) < DefaultMinSnr THEN "snr"
    ELSE "pass"

\* ccs.cpp:450-456
NewChunk(r) == [Id |-> << r.movie, r.hole >>, Reads |-> << >>,
                SignalToNoise |-> r.snr]

\* ccs.cpp:428-457
StartMolecule(r, ch, psnr) ==
    LET f == MoleculeFilter(whitelist, r) IN
    [holeNumber |-> SomeHole(r.hole),
     skipZmw    |-> f # "pass",
     poorSNR    |-> IF f = "snr" THEN psnr + 1 ELSE psnr,
     chunk      |-> IF f = "pass" THEN [ch EXCEPT !.vec = Append(@, NewChunk(r))]
                    ELSE ch]

\* ccs.cpp:472-478
NewSubread(r) == [movie |-> r.movie, hole |-> r.hole, n |-> r.n,
                  file |-> r.file, acc |-> r.acc]

\* ccs.cpp:460-478
AdmitRead(r, skip, ch) ==
    IF skip THEN ch
    ELSE IF r.acc < DefaultReadScore THEN ch
    ELSE [ch EXCEPT !.vec[Len(ch.vec)].Reads = Append(@, NewSubread(r))]

\* ccs.cpp:428-478: the loop body from the start of the new molecule on
RestOfIteration(r, bnd, ch) ==
    LET sm == IF bnd THEN StartMolecule(r, ch, poorSNR)
              ELSE [holeNumber |-> holeNumber, skipZmw |-> skipZmw,
                    poorSNR |-> poorSNR, chunk |-> ch]
    IN /\ holeNumber' = sm.holeNumber
       /\ skipZmw' = sm.skipZmw
       /\ poorSNR' = sm.poorSNR
       /\ chunk' = AdmitRead(r, sm.skipZmw, sm.chunk)

\* the molecules of the input: a molecule is a run of reads of one file with
\* one (movie, hole number); it is excluded when its first read is rejected
\* by the whitelist or the chemistry filter
Observe(h, r) ==
    LET newMol == \/ h.last.file # r.file
                  \/ h.last.movie # r.movie
                  \/ h.last.hole # r.hole
        f == MoleculeFilter(whitelist, r)
    IN [h EXCEPT !.last = [movie |-> r.movie, hole |-> r.hole, file |-> r.file],
                 !.mols = IF newMol THEN @ + 1 ELSE @,
                 !.excl = IF newMol /\ f \in {"whitelist", "chemistry"}
                            THEN @ + 1 ELSE @]

\* ccs.cpp:388
MakeQueue ==
    /\ pc = "queue"
    /\ wq' = WQ_New(nThreads)
    /\ pc' = "writer"
    /\ UNCHANGED << err, opened, cfgVars, tc, mainVars, writerVars, hist >>

\* ccs.cpp:389-390
StartWriter ==
    /\ pc = "writer"
    /\ cpc' = "consume"
    /\ pc' = "file"
    /\ UNCHANGED << err, opened, cfgVars, tc, mainVars, wq, counts, sink, hist >>

\* mutant: holeNumber and skipZmw are declared outside the loop over the
\* files and keep their values from one file to the next
NextFileKeepsMolecule ==
    /\ pc = "file"
    /\ fileNo < MaxFiles
    /\ fileNo' = fileNo + 1
    /\ pc' = "read"
    /\ UNCHANGED << err, opened, cfgVars, tc, nRead, cur, holeNumber, skipZmw,
                    chunk, poorSNR, tooFewPasses, wq, writerVars, hist >>

\* ccs.cpp:393-400: the next input file is entered
NextFile ==
    /\ pc = "file"
    /\ fileNo < MaxFiles
    /\ fileNo' = fileNo + 1
    /\ holeNumber' = NoHole
    /\ skipZmw' = FALSE
    /\ pc' = "read"
    /\ UNCHANGED << err, opened, cfgVars, tc, nRead, cur, chunk,
                    poorSNR, tooFewPasses, wq, writerVars, hist >>

\* ccs.cpp:402: the query of the current file has no more reads; the loop
\* variable read goes out of scope
EndOfFile ==
    /\ pc = "read"
    /\ pc' = "file"
    /\ cur' = NoRead
    /\ UNCHANGED << err, opened, cfgVars, tc, fileNo, nRead, holeNumber, skipZmw,
                    chunk, poorSNR, tooFewPasses, wq, writerVars, hist >>

\* ccs.cpp:402-478: one read; the iteration stops inside ProduceWith when a
\* chunk has to be submitted.  cur stays bound to the read until the next
\* iteration or the end of the loop.
ReadStepOver(reads, max) ==
    /\ pc = "read"
    /\ nRead < max
    /\ \E r \in reads :
         LET bnd == IsBoundary(holeNumber, r)
             mp  == IF bnd THEN MinPassesCheck(chunk, tooFewPasses)
                    ELSE [chunk |-> chunk, tooFewPasses |-> tooFewPasses]
         IN /\ nRead' = nRead + 1
            /\ tooFewPasses' = mp.tooFewPasses
            /\ hist' = Observe(hist, r)
            /\ IF bnd /\ MustProduceInLoop(mp.chunk)
                 THEN /\ pc' = "produce"
                      /\ cur' = r
                      /\ chunk' = mp.chunk
                      /\ UNCHANGED << holeNumber, skipZmw, poorSNR >>
                 ELSE /\ pc' = "read"
                      /\ cur' = r
                      /\ RestOfIteration(r, bnd, mp.chunk)
    /\ UNCHANGED << err, opened, cfgVars, tc, fileNo, wq, writerVars >>

\* the next read is any read, up to MaxReads reads in all
ReadStep == ReadStepOver(ReadsAt(nRead + 1, fileNo), MaxReads)

\* ccs.cpp:424-478: ProduceWith returns, the iteration goes on
ProduceInLoop ==
    /\ pc = "produce"
    /\ WQ_CanProduce(wq)
    /\ wq' = WQ_Produce(wq, chunk.vec)
    /\ RestOfIteration(cur, TRUE, NewVector)
    /\ cur' = cur
    /\ pc' = "read"
    /\ UNCHANGED << err, opened, cfgVars, tc, fileNo, nRead,
                    tooFewPasses, writerVars, hist >>

\* ccs.cpp:393 and 482-493: no more input files; the last chunk is checked
EndOfInput ==
    /\ pc = "file"
    /\ fileNo >= 1
    /\ LET mp == MinPassesCheck(chunk, tooFewPasses) IN
         /\ chunk' = mp.chunk
         /\ tooFewPasses' = mp.tooFewPasses
         /\ pc' = IF MustProduceAtEnd(mp.chunk) THEN "produceLast" ELSE "finalize"
    /\ UNCHANGED << err, opened, cfgVars, tc, fileNo, nRead, cur, holeNumber,
                    skipZmw, poorSNR, wq, writerVars, hist >>

\* ccs.cpp:495
ProduceLast ==
    /\ pc = "produceLast"
    /\ WQ_CanProduce(wq)
    /\ wq' = WQ_Produce(wq, chunk.vec)
    /\ chunk' = MovedFrom
    /\ pc' = "finalize"
    /\ UNCHANGED << err, opened, cfgVars, tc, fileNo, nRead, cur, holeNumber,
                    skipZmw, poorSNR, tooFewPasses, writerVars,
                    hist >>

\* ccs.cpp:499
Finalize ==
    /\ pc = "finalize"
    /\ wq' = WQ_Finalize(wq)
    /\ pc' = "get"
    /\ UNCHANGED << err, opened, cfgVars, tc, mainVars, writerVars, hist >>

\* mutant: the counters are merged without waiting for the writer task
JoinWriterNoWait ==
    /\ pc = "get"
    /\ cpc # "threw"
    /\ counts' = [counts EXCEPT !["PoorSNR"] = @ + poorSNR,
                                !["TooFewPasses"] = @ + tooFewPasses]
    /\ pc' = "report"
    /\ UNCHANGED << err, opened, cfgVars, tc, mainVars, wq, cpc, sink, hist >>

\* ccs.cpp:503-505: writer.get() returns the counters of the writer task
JoinWriter ==
    /\ pc = "get"
    /\ cpc = "returned"
    /\ counts' = [counts EXCEPT !["PoorSNR"] = @ + poorSNR,
                                !["TooFewPasses"] = @ + tooFewPasses]
    /\ pc' = "report"
    /\ UNCHANGED << err, opened, cfgVars, tc, mainVars, wq, cpc, sink, hist >>

\* ccs.cpp:503: writer.get() rethrows what ended the writer task; main has
\* no handler
JoinThrows ==
    /\ pc = "get"
    /\ cpc = "threw"
    /\ pc' = "terminated"
    /\ UNCHANGED << err, opened, cfgVars, tc, mainVars, wq, writerVars, hist >>

\* ccs.cpp:506-518
Report ==
    /\ pc = "report"
    /\ \E toStdout \in BOOLEAN :
          opened' = IF toStdout THEN opened ELSE opened \cup {"report"}
    /\ pc' = "done"
    /\ UNCHANGED << err, cfgVars, tc, mainVars, wq, writerVars, hist >>

\* ------------------------------------------------ the writer task
\* mutant: the flush is made inside the loop, once per record
RECURSIVE WriterCallsFlushInLoop(_, _, _)
WriterCallsFlushInLoop(ccs, pbi, off) ==
    IF ccs = << >> THEN << >>
    ELSE << [op |-> "Write", ccs |-> Head(ccs), offset |-> off] >>
         \o (IF pbi THEN << [op |-> "AddRecord", ccs |-> Head(ccs),
                               offset |-> off] >>
                    ELSE << >>)
         \o << [op |-> "TryFlush"] >>
         \o WriterCallsFlushInLoop(Tail(ccs), pbi, off + 1)

\* ccs.cpp:109-171: the calls Writer makes for one batch; off is the offset
\* ccsBam.Write reports for the next record (the records written before it)
RECURSIVE WriterCalls(_, _, _)
WriterCalls(ccs, pbi, off) ==
    IF ccs = << >> THEN << [op |-> "TryFlush"] >>
    ELSE << [op |-> "Write", ccs |-> Head(ccs), offset |-> off] >>
         \o (IF pbi THEN << [op |-> "AddRecord", ccs |-> Head(ccs),
                               offset |-> off] >>
                    ELSE << >>)
         \o WriterCalls(Tail(ccs), pbi, off + 1)

\* the records the BAM file holds
Written(snk) == Cardinality({ i \in DOMAIN snk : snk[i].op = "Write" })

\* ccs.cpp:105-172
Writer(results) ==
    /\ counts' = AddCounts(counts, results.counts)
    /\ sink' = sink \o WriterCalls(results.ccs, ccsPbi, Written(sink))

\* ccs.cpp:178: ConsumeWith takes the head handle
ConsumePop ==
    /\ cpc = "consume"
    /\ wq.fifo # << >>
    /\ wq' = WQ_Pop(wq)
    /\ cpc' = "wait"
    /\ UNCHANGED << pc, err, opened, cfgVars, tc, mainVars, counts, sink, hist >>

\* ccs.cpp:178: the awaited result is there, ConsumeWith calls Writer and
\* returns true
ConsumeApply ==
    /\ cpc = "wait"
    /\ wq.tasks[wq.held].st = "done"
    /\ Writer(wq.tasks[wq.held].res)
    /\ hist' = [hist EXCEPT !.cons = Append(@, [h |-> wq.held, how |-> "applied"])]
    /\ wq' = WQ_Release(wq)
    /\ cpc' = "consume"
    /\ UNCHANGED << pc, err, opened, cfgVars, tc, mainVars >>

\* ccs.cpp:166-171 inside ConsumeWith (178): a call on the record sink or the
\* index builder fails after Writer has added the counters (107) and made k
\* of its calls; the error leaves Writer, ConsumeWith and WriterThread
ConsumeSinkFails ==
    /\ cpc = "wait"
    /\ wq.tasks[wq.held].st = "done"
    /\ LET res   == wq.tasks[wq.held].res
           calls == WriterCalls(res.ccs, ccsPbi, Written(sink))
       IN /\ counts' = AddCounts(counts, res.counts)
          /\ \E k \in 0 .. (Len(calls) - 1) : sink' = sink \o SubSeq(calls, 1, k)
    /\ hist' = [hist EXCEPT !.cons = Append(@, [h |-> wq.held, how |-> "sinkFailed"])]
    /\ wq' = WQ_Release(wq)
    /\ cpc' = "threw"
    /\ UNCHANGED << pc, err, opened, cfgVars, tc, mainVars >>

\* mutant: WriterThread catches the error and goes on consuming
ConsumeRaiseCaught ==
    /\ cpc = "wait"
    /\ wq.tasks[wq.held].st = "failed"
    /\ hist' = [hist EXCEPT !.cons = Append(@, [h |-> wq.held, how |-> "raised"])]
    /\ wq' = WQ_Release(wq)
    /\ cpc' = "consume"
    /\ UNCHANGED << pc, err, opened, cfgVars, tc, mainVars, counts, sink >>

\* ccs.cpp:178: the awaited computation failed, its error leaves
\* ConsumeWith and WriterThread
ConsumeRaise ==
    /\ cpc = "wait"
    /\ wq.tasks[wq.held].st = "failed"
    /\ hist' = [hist EXCEPT !.cons = Append(@, [h |-> wq.held, how |-> "raised"])]
    /\ wq' = WQ_Release(wq)
    /\ cpc' = "threw"
    /\ UNCHANGED << pc, err, opened, cfgVars, tc, mainVars, counts, sink >>

\* ccs.cpp:178-179: ConsumeWith returns false, WriterThread returns counts
ConsumeEnd ==
    /\ cpc = "consume"
    /\ WQ_Drained(wq)
    /\ cpc' = "returned"
    /\ UNCHANGED << pc, err, opened, cfgVars, tc, mainVars, wq, counts, sink,
                    hist >>

\* ------------------------------------------------------ specification
MainStep ==
    \/ ParseArgs \/ CheckMinPasses \/ CheckZmws \/ CheckFiles \/ CheckExists
    \/ SetupLogging \/ OpenBam \/ OpenPbi \/ MakeQueue \/ StartWriter
    \/ NextFile \/ EndOfFile \/ ReadStep \/ ProduceInLoop \/ EndOfInput
    \/ ProduceLast \/ Finalize \/ JoinWriter \/ JoinThrows \/ Report

WorkerStep ==
    \E i \in 1 .. Len(wq.tasks) :
        WorkerStart(i) \/ WorkerFinish(i) \/ WorkerFail(i)
WriterStep ==
    \/ ConsumePop \/ ConsumeApply \/ ConsumeSinkFails \/ ConsumeRaise
    \/ ConsumeEnd

Next == MainStep \/ WorkerStep \/ WriterStep

Spec == Init /\ [][Next]_vars

\* ThreadCount on its own: every argument n and hardware concurrency m
InitTC ==
    /\ pc = "threadCount"
    /\ tc \in [active : {TRUE}, n : (-MaxTcArg) .. MaxTcArg, m : 0 .. MaxTcArg,
               ret : {0}]
    /\ InitRest

\* ccs.cpp:222-230
CallThreadCount ==
    /\ pc = "threadCount"
    /\ tc' = [tc EXCEPT !.ret = ThreadCountOf(tc.n, tc.m)]
    /\ pc' = "returned"
    /\ UNCHANGED << err, opened, cfgVars, mainVars, wq, writerVars, hist >>

NextTC == CallThreadCount

SpecTC == InitTC /\ [][NextTC]_vars

\* Writer on its own: ConsumeWith holds the handle of a completed
\* computation, whose result is any batch of up to MaxBatch records; the
\* sink is new or has taken one batch before
RecordsW ==
    { [Id |-> << "m1", h >>, NumPasses |-> 1, SignalToNoise |-> << 4, 6, 5, 8 >>,
       first |-> h] : h \in 1 .. (MaxBatch + 1) }

SeqsUpTo(S, n) == UNION { [1 .. k -> S] : k \in 0 .. n }

ResultsW ==
    { [counts |-> [o \in Outcomes |-> IF o = "Success" THEN Len(q)
                                      ELSE IF o = "TooFewPasses" THEN f ELSE 0],
       ccs |-> q] : q \in SeqsUpTo(RecordsW, MaxBatch), f \in 0 .. 1 }

InitW ==
    /\ pc = "writerCall"
    /\ cpc = "wait"
    /\ ccsPbi \in BOOLEAN
    /\ \E res \in ResultsW :
          wq = [built |-> TRUE, size |-> 1,
                tasks |-> << [batch |-> << >>, st |-> "done", res |-> res] >>,
                fifo |-> << >>, held |-> 1, finalized |-> FALSE]
    /\ \E before \in BOOLEAN :
          LET rec == CHOOSE x \in RecordsW : x.first = 1 IN
          /\ counts = IF before THEN OneCount("Success") ELSE ZeroCounts
          /\ sink = IF before THEN WriterCalls(<< rec >>, ccsPbi, 0) ELSE << >>
    /\ tc = NoCall
    /\ err = ""
    /\ opened = {"bam"}
    /\ MinPasses = 1
    /\ whitelist = NoWhitelist
    /\ nThreads = 1
    /\ fileNo = 1
    /\ nRead = 0
    /\ cur = NoRead
    /\ holeNumber = NoHole
    /\ skipZmw = FALSE
    /\ chunk = NewVector
    /\ poorSNR = 0
    /\ tooFewPasses = 0
    /\ hist = NoHistory

NextW == ConsumeApply

SpecW == InitW /\ [][NextW]_vars

\* The run from the first input file on, with an input of up to MaxReadsF
\* reads of molecules that pass every filter (movie m1, SNR and accuracy at
\* the thresholds), --minPasses 1, no whitelist and a queue of at least one
\* worker: long enough for submissions to follow the end of the writer task.
ReadsF(n, f) ==
    { r \in ReadsAt(n, f) : /\ r.movie = "m1"
                            /\ MinOf(r.snr) >= DefaultMinSnr
                            /\ r.acc >= DefaultReadScore }

ReadStepF == ReadStepOver(ReadsF(nRead + 1, fileNo), MaxReadsF)

InitF ==
    /\ pc = "file"
    /\ cpc = "consume"
    /\ nThreads \in 1 .. MaxHw
    /\ wq = WQ_New(nThreads)
    /\ ccsPbi \in BOOLEAN
    /\ opened = IF ccsPbi THEN {"bam", "pbi"} ELSE {"bam"}
    /\ MinPasses = 1
    /\ whitelist = NoWhitelist
    /\ chunk = NewVector
    /\ tc = NoCall
    /\ err = ""
    /\ fileNo = 0
    /\ nRead = 0
    /\ cur = NoRead
    /\ holeNumber = NoHole
    /\ skipZmw = FALSE
    /\ poorSNR = 0
    /\ tooFewPasses = 0
    /\ counts = ZeroCounts
    /\ sink = << >>
    /\ hist = NoHistory

MainStepF ==
    \/ NextFile \/ EndOfFile \/ ReadStepF \/ ProduceInLoop \/ EndOfInput
    \/ ProduceLast \/ Finalize \/ JoinWriter \/ JoinThrows \/ Report

NextF == MainStepF \/ WorkerStep \/ WriterStep

SpecF == InitF /\ [][NextF]_vars

\* ================================================================ claims

Applied == { i \in DOMAIN hist.cons : hist.cons[i].how = "applied" }
Raised  == { i \in DOMAIN hist.cons : hist.cons[i].how = "raised" }
SinkFailed == { i \in DOMAIN hist.cons : hist.cons[i].how = "sinkFailed" }
Writes  == { i \in DOMAIN sink : sink[i].op = "Write" }
Failed  == { i \in DOMAIN wq.tasks : wq.tasks[i].st = "failed" }
Unfinished == { i \in DOMAIN wq.tasks : wq.tasks[i].st \in {"queued", "running"} }

\* C1: results reach the apply function in submission order: the i-th
\* handle consumed is the i-th submission, whatever order the computations
\* complete in, so N submissions are consumed in the order 1..N.
C1_OrderPreserved ==
    /\ \A i \in DOMAIN hist.cons : hist.cons[i].h = i
    /\ \A i, j \in Applied : i < j => hist.cons[i].h < hist.cons[j].h

\* submission 2 has completed before submission 1, and ConsumeWith, holding
\* the handle of submission 1, waits for it
C1_Witness ==
    /\ hist.cons = << >>
    /\ wq.held = 1
    /\ wq.tasks[1].st = "running"
    /\ Len(wq.tasks) >= 2
    /\ wq.tasks[2].st = "done"

\* C2: the record sink receives the records in the order of the molecules in
\* the input: of two Write calls the earlier one carries the record of the
\* molecule whose reads come first.
C2_SinkInInputOrder ==
    \A i, j \in Writes : i < j => sink[i].ccs.first < sink[j].ccs.first

\* two records written, the second computed from later reads
C2_Witness ==
    \E i, j \in Writes : i < j /\ sink[i].ccs.first < sink[j].ccs.first

\* C3: a chunk handed to ProduceWith holds at least MinPasses >= 1 reads; a
\* chunk with fewer reads is dropped at the boundary or at the end of the
\* input, adds exactly one to tooFewPasses, and is not submitted; nothing
\* else changes tooFewPasses.
ShortChunk ==
    chunk.ptr /\ chunk.vec # << >> /\ Len(Last(chunk.vec).Reads) < MinPasses

FlushStep ==
    \/ /\ pc = "read"
       /\ nRead' = nRead + 1
       /\ IsBoundary(holeNumber, hist'.last)
    \/ /\ pc = "file"
       /\ pc' \in {"produceLast", "finalize"}

SubmittedChunksPass ==
    \A i \in DOMAIN wq.tasks : \A k \in DOMAIN wq.tasks[i].batch :
        /\ MinPasses >= 1
        /\ Len(wq.tasks[i].batch[k].Reads) >= MinPasses

DiscardCounted ==
    IF FlushStep /\ ShortChunk
      THEN /\ tooFewPasses' = tooFewPasses + 1
           /\ wq'.tasks = wq.tasks
           /\ pc' \notin {"produce", "produceLast"}
           /\ \A k \in DOMAIN chunk'.vec : \A x \in DOMAIN chunk'.vec[k].Reads :
                  chunk'.vec[k].Reads[x].n > nRead
      ELSE tooFewPasses' = tooFewPasses

C3_MinPassesBeforeSubmit ==
    [](SubmittedChunksPass) /\ [][DiscardCounted]_vars

\* a chunk was dropped for too few passes and a later one was submitted
C3_Witness ==
    tooFewPasses >= 1 /\ Len(wq.tasks) >= 1

\* with MinPasses = 2 a chunk of one read was dropped at the end of the input
C3_WitnessOneRead ==
    MinPasses = 2 /\ tooFewPasses = 1 /\ nRead = 1 /\ pc = "finalize"

\* C4: at the report the counters add up to the molecules of the input minus
\* the molecules excluded by the whitelist or the chemistry filter.
C4_CounterPartition ==
    pc \in {"report", "done"} => Total(counts) = hist.mols - hist.excl

\* C5: never more than B outstanding handles, B the bound of a queue of
\* nThreads workers; ProduceWith blocks exactly while B handles are
\* outstanding, whatever the state of the computations.
C5_Backpressure ==
    /\ WQ_Outstanding(wq) <= WQ_Capacity(nThreads)
    /\ pc \in {"produce", "produceLast"} =>
         ( (ENABLED (ProduceInLoop \/ ProduceLast))
             <=> WQ_Outstanding(wq) < WQ_Capacity(nThreads) )

\* the producer is blocked on a full queue none of whose computations has
\* completed
C5_Witness ==
    /\ pc \in {"produce", "produceLast"}
    /\ nThreads >= 1
    /\ WQ_Outstanding(wq) = WQ_Capacity(nThreads)
    /\ \A k \in DOMAIN wq.fifo : wq.fifo[k] \in Unfinished

\* ProduceWith is free to return while a computation is still running
C5_WitnessNoWait ==
    /\ pc \in {"produce", "produceLast"}
    /\ ENABLED (ProduceInLoop \/ ProduceLast)
    /\ Unfinished # {}

\* C6: as long as no computation fails, the run is over (every submission
\* consumed once, the writer task returned, the report written) or some
\* thread can take a step: nobody blocks forever.
NoWorkerError == Failed = {} /\ Raised = {} /\ cpc # "threw"

RunOver ==
    \/ pc = "exit"
    \/ /\ pc = "done"
       /\ cpc = "returned"
       /\ wq.finalized
       /\ Len(wq.tasks) = Cardinality(Applied)

C6_RunTerminates ==
    NoWorkerError => (RunOver \/ ENABLED Next)

\* C7: ConsumeWith returns false at once, and without calling Writer, when
\* the FIFO is empty after Finalize(); it does not return false on an empty
\* FIFO before Finalize().
ConsumeReturnsFalse == cpc = "consume" /\ cpc' = "returned"

FinalizeState ==
    /\ (cpc = "consume" /\ wq.fifo = << >> /\ wq.finalized)
          => (ENABLED ConsumeEnd) /\ ~(ENABLED ConsumePop)
    /\ (cpc = "consume" /\ wq.fifo = << >> /\ ~wq.finalized)
          => ~(ENABLED ConsumeEnd)
    /\ cpc = "returned" => wq.finalized /\ wq.fifo = << >>

C7_FinalizeSemantics ==
    /\ [](FinalizeState)
    /\ [][ConsumeReturnsFalse =>
            /\ wq.finalized /\ wq.fifo = << >>
            /\ hist'.cons = hist.cons /\ counts' = counts /\ sink' = sink]_vars

\* the writer task has returned after it consumed results
C7_Witness ==
    cpc = "returned" /\ Cardinality(Applied) >= 1

\* ConsumeWith waits on the empty FIFO of an open queue
C7_WitnessBlocked ==
    cpc = "consume" /\ wq.fifo = << >> /\ ~wq.finalized /\ Len(hist.cons) >= 1

\* C8: the error of a computation is raised in ConsumeWith when its handle,
\* popped from the head of the FIFO, is awaited: once, after the results of
\* all earlier submissions were applied, and it ends the writer task.
C8_FailurePropagation ==
    /\ \A i \in Raised :
          /\ hist.cons[i].h = i
          /\ i = Len(hist.cons)
          /\ \A j \in 1 .. (i - 1) : j \in Applied
          /\ cpc = "threw"
    /\ cpc = "threw" => Raised # {} \/ SinkFailed # {}
    /\ \A i \in Failed : \A k \in DOMAIN hist.cons : hist.cons[k].h # i
    /\ (cpc = "wait" /\ wq.held \in Failed)
          => (ENABLED ConsumeRaise) /\ ~(ENABLED ConsumeApply)

\* the error of submission 2 was raised after the result of submission 1 was
\* applied
C8_Witness ==
    /\ cpc = "threw"
    /\ Len(hist.cons) = 2
    /\ Applied = {1}
    /\ Raised = {2}

\* C9: on the fatal option errors no file was opened for writing, the work
\* queue was not constructed and the writer task was not started.
OptionErrors ==
    { "option --minPasses: invalid value: must be >= 1",
      "option --zmws: invalid specification",
      "missing OUTPUT",
      "missing FILES...",
      "OUTPUT: file already exists" }

C9_OptionErrorsBeforeOutput ==
    (pc = "exit" /\ err \in OptionErrors)
        => opened = {} /\ ~wq.built /\ cpc = "idle"

\* the run ended on the last of the option checks
C9_Witness ==
    pc = "exit" /\ err = "OUTPUT: file already exists"

\* C10: ThreadCount(n) is max(1, m - |n|) for n < 1 and min(m, n) for
\* n >= 1, m the hardware concurrency.
C10_ThreadCountArithmetic ==
    pc = "returned" =>
        tc.ret = IF tc.n < 1 THEN Max(1, tc.m - Abs(tc.n))
                 ELSE Min(tc.m, tc.n)

\* a negative bias that leaves more than one thread
C10_Witness ==
    pc = "returned" /\ tc.n < 0 /\ tc.ret > 1

\* the chunks handed to ProduceWith and not yet consumed by a computation
SubmittedChunks ==
    UNION { { wq.tasks[i].batch[k] : k \in DOMAIN wq.tasks[i].batch } :
              i \in DOMAIN wq.tasks }

\* C11: a molecule is identified by (movie, hole number): every read whose
\* (movie, hole number) differs from the current molecule's starts a new
\* molecule, so every chunk handed to ProduceWith holds only reads of the
\* movie and hole number of its own Id; two consecutive molecules of one file
\* with the same hole number and different movies give two chunks.
C11_BoundaryByMoleculeId ==
    \A c \in SubmittedChunks : \A x \in DOMAIN c.Reads :
        << c.Reads[x].movie, c.Reads[x].hole >> = c.Id

\* a step in which the loop body has dealt with a read (cur' is that read):
\* an iteration that ran through, or one that resumed after ProduceWith
ProcessedRead ==
    \/ pc = "read" /\ pc' = "read" /\ nRead' = nRead + 1
    \/ pc = "produce" /\ pc' = "read"

\* the read dealt with is the first of a molecule: its file, movie or hole
\* number differs from the read before it (an iteration that had to submit
\* a chunk is at a boundary, and the history already holds its read)
NewMolecule ==
    /\ ProcessedRead
    /\ \/ pc = "produce"
       \/ hist.last.file # cur'.file
       \/ hist.last.movie # cur'.movie
       \/ hist.last.hole # cur'.hole

PassesWhitelist(r) == ~whitelist.has \/ WhitelistContains(whitelist, r.movie, r.hole)
PassesChemistry(r) == VerifyChemistry(ReadGroupOf(r.movie))
LowSnr(r) == MinOf(r.snr) < DefaultMinSnr

\* read r is held by a chunk of the pending batch ch
ReadIn(ch, r) ==
    \E k \in DOMAIN ch.vec : \E x \in DOMAIN ch.vec[k].Reads :
        ch.vec[k].Reads[x].n = r.n

FilterStep ==
    LET r == cur'
        poor == PassesWhitelist(r) /\ PassesChemistry(r) /\ LowSnr(r)
        rejected == ~PassesWhitelist(r) \/ ~PassesChemistry(r) \/ LowSnr(r)
    IN /\ NewMolecule =>
            /\ poorSNR' = IF poor THEN poorSNR + 1 ELSE poorSNR
            /\ skipZmw' = rejected
            /\ rejected => \A k \in DOMAIN chunk'.vec :
                              chunk'.vec[k].Id # << r.movie, r.hole >>
       /\ ~NewMolecule => poorSNR' = poorSNR
       /\ (ProcessedRead /\ (~PassesWhitelist(r) \/ ~PassesChemistry(r)))
             => ~ReadIn(chunk', r)
       /\ (ProcessedRead /\ ~NewMolecule /\ skipZmw)
             => skipZmw' /\ ~ReadIn(chunk', r)

\* C12: at each boundary the molecule filters run in the order whitelist,
\* chemistry, SNR and stop at the first failure: poorSNR grows by one exactly
\* when the new molecule passes whitelist and chemistry and its smallest SNR
\* is below the threshold (equal passes); a whitelist or chemistry failure
\* changes no counter; a rejected molecule is skipped: it starts no chunk and
\* none of its reads is appended, hence none is submitted.
C12_FilterOrder == [][FilterStep]_vars

\* the molecule of the last read passed the molecule filters and every read
\* of it so far was dropped for its accuracy: its chunk holds no read
EmptyMolecule ==
    /\ chunk.ptr /\ chunk.vec # << >>
    /\ Last(chunk.vec).Id = << hist.last.movie, hist.last.hole >>
    /\ Last(chunk.vec).Reads = << >>

\* the next read is taken: one more of the molecule of the last read, or the
\* first of another molecule
TakesRead == pc = "read" /\ nRead' = nRead + 1
SameMolecule ==
    /\ hist.last.file = cur'.file
    /\ hist.last.movie = cur'.movie
    /\ hist.last.hole = cur'.hole
EndOfStreamFlush == pc = "file" /\ pc' \in {"produceLast", "finalize"}

\* the chunk is dropped and counted, not submitted
Discarded ==
    /\ tooFewPasses' = tooFewPasses + 1
    /\ pc' \notin {"produce", "produceLast"}
    /\ wq'.tasks = wq.tasks

PassesTiming ==
    /\ (EmptyMolecule /\ TakesRead /\ SameMolecule)
          => tooFewPasses' = tooFewPasses
    /\ (EmptyMolecule /\ TakesRead /\ ~SameMolecule)
          => \/ Discarded
             \/ tooFewPasses' = tooFewPasses /\ chunk' = chunk
    /\ (EmptyMolecule /\ EndOfStreamFlush) => Discarded
    /\ ~((TakesRead /\ ~SameMolecule) \/ EndOfStreamFlush)
          => tooFewPasses' = tooFewPasses

\* C13: a molecule all of whose reads fail the accuracy filter is dropped as
\* TooFewPasses at the next boundary or at the end of the stream, not before:
\* tooFewPasses does not change while reads of the molecule are taken, and
\* grows by exactly one for it at the following boundary, or at the latest
\* at the final flush (its chunk left as it is until then), where the chunk
\* is removed without being submitted.
C13_MinPassesTiming == [][PassesTiming]_vars

\* the chunks of the pending batch and of the batches handed to ProduceWith
AllChunks ==
    SubmittedChunks \cup { chunk.vec[k] : k \in DOMAIN chunk.vec }

\* a chunk holds only reads of its own molecule (one file, the movie and hole
\* number of its Id) that reach the minimum read score, in stream order
OnlyAdmittedReads ==
    \A c \in AllChunks : \A x \in DOMAIN c.Reads :
        /\ c.Reads[x].acc >= DefaultReadScore
        /\ << c.Reads[x].movie, c.Reads[x].hole >> = c.Id
        /\ \A y \in DOMAIN c.Reads :
              /\ c.Reads[y].file = c.Reads[x].file
              /\ x < y => c.Reads[x].n < c.Reads[y].n

\* a read of a molecule that is not skipped is appended to the chunk of its
\* molecule when it reaches the minimum read score; a read below it is
\* dropped, and that changes nothing else
AdmissionStep ==
    LET r == cur' IN
    /\ (ProcessedRead /\ ~skipZmw' /\ r.acc >= DefaultReadScore)
          => /\ chunk'.vec # << >>
             /\ Last(chunk'.vec).Id = << r.movie, r.hole >>
             /\ Last(chunk'.vec).Reads # << >>
             /\ Last(Last(chunk'.vec).Reads).n = r.n
    /\ (ProcessedRead /\ r.acc < DefaultReadScore) => ~ReadIn(chunk', r)
    /\ (ProcessedRead /\ ~NewMolecule /\ ~skipZmw /\ r.acc < DefaultReadScore)
          => /\ chunk' = chunk
             /\ skipZmw' = skipZmw
             /\ poorSNR' = poorSNR
             /\ tooFewPasses' = tooFewPasses

\* ProduceWith takes the pending batch as it is, and takes it away: no read
\* of it stays in the next pending batch
SubmissionStep ==
    (pc \in {"produce", "produceLast"} /\ pc' # pc)
       => /\ Len(wq'.tasks) = Len(wq.tasks) + 1
          /\ Last(wq'.tasks).batch = chunk.vec
          /\ \A k \in DOMAIN chunk.vec : \A x \in DOMAIN chunk.vec[k].Reads :
                ~ReadIn(chunk', chunk.vec[k].Reads[x])

\* C14: the reads of a chunk at submission are exactly the reads of its
\* molecule that are not below the minimum read score (equal is admitted),
\* in stream order; a dropped read changes no counter and does not end the
\* molecule; an accepted molecule is submitted exactly once.
C14_PerReadAdmission ==
    [](OnlyAdmittedReads) /\ [][AdmissionStep /\ SubmissionStep]_vars

\* the producer is past Finalize()
AfterFinalize == pc \in {"get", "report", "done", "terminated"}

ShutdownState ==
    /\ wq.finalized <=> AfterFinalize
    /\ pc \in {"report", "done"} =>
          /\ cpc = "returned"
          /\ Cardinality(Applied) = Len(wq.tasks)
          /\ Total(counts) = Len(wq.tasks) * chunkSize + poorSNR + tooFewPasses
    /\ ~((ENABLED JoinWriter) /\ (ENABLED ConsumeApply))

ShutdownStep ==
    /\ (pc = "finalize" /\ pc' # pc) => ~wq.finalized /\ wq'.finalized
    /\ wq.finalized => /\ wq'.finalized
                       /\ Len(wq'.tasks) = Len(wq.tasks)
                       /\ Len(wq'.fifo) <= Len(wq.fifo)
    /\ (pc = "get" /\ pc' = "report") =>
          /\ cpc = "returned"
          /\ counts' = [counts EXCEPT !["PoorSNR"] = @ + poorSNR,
                                      !["TooFewPasses"] = @ + tooFewPasses]
    /\ pc \in {"report", "done"} => counts' = counts
    /\ counts' # counts => (pc = "get" /\ cpc = "returned") \/ (cpc = "wait" /\ pc' = pc)

\* C15: Finalize() is called once, after the last ProduceWith (none follows
\* it, the flush of the last chunk included); the producer adds poorSNR and
\* tooFewPasses to the counters and writes the report only after the writer
\* task has returned, so the two never write the counters at the same time
\* and the report covers every consumed batch.
C15_ShutdownOrdering == [](ShutdownState) /\ [][ShutdownStep]_vars

\* the report was written after a chunk was submitted at the end of the
\* stream and a molecule was rejected before submission
C15_Witness ==
    /\ pc = "done"
    /\ wq.finalized
    /\ Len(wq.tasks) >= 1
    /\ poorSNR + tooFewPasses >= 1
    /\ counts["PoorSNR"] + counts["TooFewPasses"] >= poorSNR + tooFewPasses

\* the calls the sink received in this step
NewCalls == SubSeq(sink', Len(sink) + 1, Len(sink'))

\* ConsumeWith hands the result of the awaited computation to Writer
WriterCalled == cpc = "wait" /\ cpc' = "consume"

SinkPerBatch ==
    WriterCalled =>
      LET res == wq.tasks[wq.held].res
          new == NewCalls
          per == IF ccsPbi THEN 2 ELSE 1
          at(k) == (k - 1) * per + 1
      IN /\ \A o \in Outcomes : counts'[o] = counts[o] + res.counts[o]
         /\ SubSeq(sink', 1, Len(sink)) = sink
         /\ Len(new) = Len(res.ccs) * per + 1
         /\ \A i \in DOMAIN new : new[i].op = "TryFlush" <=> i = Len(new)
         /\ \A k \in DOMAIN res.ccs :
               /\ new[at(k)].op = "Write"
               /\ new[at(k)].ccs = res.ccs[k]
               /\ new[at(k)].offset = Written(sink) + k - 1
               /\ ccsPbi => /\ new[at(k) + 1].op = "AddRecord"
                             /\ new[at(k) + 1].ccs = res.ccs[k]
                             /\ new[at(k) + 1].offset = new[at(k)].offset
         /\ ~ccsPbi => \A i \in DOMAIN new : new[i].op # "AddRecord"

\* C16: for each consumed batch Writer adds the batch's counters to the
\* running total once, writes the batch's records in the order of the batch,
\* hands each record with its offset to the index builder (when there is
\* one) right after that record's write, and flushes the record sink once,
\* after the last record, also when the batch has no record.
C16_SinkPerBatch == [][SinkPerBatch]_vars

\* a batch of two records was written to a sink that held one record, with
\* an index builder
C16_Witness ==
    /\ pc = "writerCall"
    /\ cpc = "consume"
    /\ ccsPbi
    /\ Len(sink) = 8
    /\ sink[4].op = "Write" /\ sink[6].op = "Write"
    /\ sink[4].ccs # sink[6].ccs

\* a batch without records was flushed
C16_WitnessEmptyBatch ==
    /\ pc = "writerCall"
    /\ cpc = "consume"
    /\ sink = << [op |-> "TryFlush"] >>
    /\ Total(counts) = 1

\* C17: the work queue is always built with at least one worker:
\* ThreadCount(n) >= 1 for every requested n and every hardware concurrency
\* m >= 0, also m = 0 (the number of hardware threads is not known).
C17_AtLeastOneWorker ==
    pc = "returned" => tc.ret >= 1

\* the consumer loop of WriterThread has ended on an error
WriterEndedEarly == cpc = "threw"

\* main waits in ProduceWith and ProduceWith cannot return
ProducerBlocked ==
    /\ pc \in {"produce", "produceLast"}
    /\ ~(ENABLED (ProduceInLoop \/ ProduceLast))

\* C18: when the error of a computation is raised in ConsumeWith, or the
\* record sink fails inside Writer, and WriterThread ends early, main is not
\* left waiting in ProduceWith on a full queue: until it has seen the failure
\* at writer.get() it can always take its next step.
C18_NoDeadlockOnFailure ==
    WriterEndedEarly => /\ ~ProducerBlocked
                        /\ pc = "terminated" \/ ENABLED MainStepF

\* once main waits on a full queue whose consumer has ended, it waits for good
BlockedForGood ==
    [][(WriterEndedEarly /\ ProducerBlocked)
          => (WriterEndedEarly /\ ProducerBlocked)']_vars

\* main is in the loops over the input files and their reads
InProducerLoop == pc \in {"file", "read", "produce"}

\* C19: in the producer loop the pending batch exists (chunk is not the
\* moved-from pointer) and holds at most one chunk; while the molecule of the
\* current read is not skipped it holds exactly one chunk, whose Id is that
\* molecule, so chunk->back().Reads is the read list of the current
\* molecule; before the first read of a file no molecule is current and the
\* skip flag is false, so that read is a boundary.
C19_AssemblerState ==
    InProducerLoop =>
        /\ chunk.ptr
        /\ Len(chunk.vec) <= 1
        /\ (pc = "read" /\ cur = NoRead) => ~holeNumber.has /\ ~skipZmw
        /\ (pc = "read" /\ cur # NoRead) =>
              /\ holeNumber = SomeHole(cur.hole)
              /\ ~skipZmw => /\ Len(chunk.vec) = 1
                              /\ chunk.vec[1].Id = << cur.movie, cur.hole >>

\* no chunk holds reads of two input files, and nothing is pending after the
\* flush at the end of the stream
OneFilePerChunk ==
    /\ \A c \in AllChunks : \A x, y \in DOMAIN c.Reads :
          c.Reads[x].file = c.Reads[y].file
    /\ pc \in {"finalize", "get", "report", "done", "terminated"}
          => chunk.vec = << >>

\* the pending chunk is checked against MinPasses, then dropped and counted
\* or on its way to ProduceWith as it is
Flushed(submitAt) ==
    IF ShortChunk
      THEN /\ tooFewPasses' = tooFewPasses + 1
           /\ pc' # submitAt
           /\ \A x \in DOMAIN Last(chunk.vec).Reads :
                 ~ReadIn(chunk', Last(chunk.vec).Reads[x])
      ELSE /\ tooFewPasses' = tooFewPasses
           /\ pc' = submitAt
           /\ chunk' = chunk

\* the first read of an input file is taken: no read of this file was seen
FirstReadOfFile == TakesRead /\ hist.last.file # fileNo

FileBoundaryStep ==
    /\ (FirstReadOfFile /\ chunk.vec # << >>) => Flushed("produce")
    /\ (EndOfStreamFlush /\ chunk.vec # << >>) => Flushed("produceLast")
    /\ (pc = "produceLast" /\ pc' # pc)
          => /\ Last(wq'.tasks).batch = chunk.vec
             /\ Len(wq'.tasks) = Len(wq.tasks) + 1
             /\ chunk'.vec = << >>
    /\ ((pc = "file" /\ pc' = "read") \/ (pc = "read" /\ pc' = "file"))
          => chunk' = chunk /\ tooFewPasses' = tooFewPasses /\ wq' = wq

\* C20: the current molecule is reset at the start of every input file, so
\* the first read of a file is a boundary: the chunk still pending from the
\* file before is checked against MinPasses and submitted or dropped, and no
\* chunk holds reads of two files, also when that read has the movie and
\* hole number of the last molecule of the file before; the chunk pending at
\* the end of the last file, or before files without reads, is flushed once
\* by the step at the end of the stream.
C20_FileBoundary == [](OneFilePerChunk) /\ [][FileBoundaryStep]_vars

\* the first read of the second file has the movie and hole number of the
\* chunk pending from the first file, which is on its way to ProduceWith
C20_Witness ==
    /\ pc = "produce"
    /\ cur.file = 2
    /\ Len(chunk.vec) = 1
    /\ chunk.vec[1].Id = << cur.movie, cur.hole >>
    /\ chunk.vec[1].Reads # << >>
    /\ chunk.vec[1].Reads[1].file = 1

\* a chunk pending through a file without reads was submitted at the end of
\* the stream
C20_WitnessEmptyFile ==
    /\ pc = "finalize"
    /\ fileNo = 2
    /\ hist.last.file = 1
    /\ Len(wq.tasks) = 1

====
